---- MODULE Spec2Model ----
(***************************************************************************)
(* Model of the batch drivers of rpa_wrapper.py (extract_rpa, create_rpa,  *)
(* list_rpa_files) and decompile_wrapper.py (decompile_directory): their   *)
(* control flow, the exception handlers that enclose each collaborator     *)
(* call, the progress snapshots handed to _write_progress and the result   *)
(* dictionary each call returns.                                           *)
(*                                                                         *)
(* Paths are sequences of components ("/" as first component = absolute).  *)
(* Messages are flat sequences of string tokens, so that two messages are  *)
(* equal exactly when the formatted strings are equal.                     *)
(***************************************************************************)
EXTENDS Integers, Sequences, FiniteSets, TLC

\* ---- bounds of the model ------------------------------------------------
MaxEntries == 6     \* entries of the archive universe (extract_rpa, list_rpa_files)
MaxDirFiles == 2    \* files per directory of the source tree (create_rpa)
MaxScan == 9        \* files under the scanned directory (decompile_directory)
MaxWrites == 4      \* calls of _write_progress followed at the level of the file
MaxChunks == 2      \* chunks json.dump writes for one snapshot

\* ---- inputs -------------------------------------------------------------
Ops == {"extract", "create", "decompile", "list"}

\* The output_dir argument of extract_rpa.
OutputDir == <<"/", "out">>

\* Name of the i-th entry of the archive universe.  Entry 3 is an absolute
\* name that os.path.join maps to the same destination as entry 1.
EntryName(i) ==
  CASE i = 1 -> <<"a">>
    [] i = 2 -> <<"d", "b">>
    [] i = 3 -> <<"/", "out", "a">>
    [] OTHER -> <<"f", ToString(i)>>

EntryNames == { EntryName(i) : i \in 1..MaxEntries }

\* The subsequence of the universe selected by the index set S, in index order.
RECURSIVE Pick(_, _)
Pick(S, i) ==
  IF i > MaxEntries THEN <<>>
  ELSE (IF i \in S THEN <<EntryName(i)>> ELSE <<>>) \o Pick(S, i + 1)

Listings == { Pick(S, 1) : S \in SUBSET (1..MaxEntries) }

\* os.path.join(output_dir, filename): an absolute second argument discards
\* the first.
PathJoin(dir, name) ==
  IF name # <<>> /\ name[1] = "/" THEN name ELSE dir \o name

\* ---- source trees of create_rpa -----------------------------------------
\* A directory is a sequence of nodes in os.listdir order.  kind "file" is a
\* regular file, "dir" a real directory, "link" a symbolic link to a directory.
FileNode(n) == [name |-> ToString(n), kind |-> "file", children |-> <<>>, bytes |-> n]
DirNode(name, kind, children) ==
  [name |-> name, kind |-> kind, children |-> children, bytes |-> 0]

\* k files whose names and bytes are base+1 .. base+k.
FilesOf(base, k) == [i \in 1..k |-> FileNode(base + i)]

\* Root with f files and a directory "sub"; "sub" holds g files and a linked
\* directory "lnk", which holds h files.  dirsFirst puts the directory
\* before the files in each listing.
Tree(f, g, h, dirsFirst) ==
  LET lnk == DirNode("lnk", "link", FilesOf(20, h))
      sub == DirNode("sub", "dir",
                     IF dirsFirst THEN <<lnk>> \o FilesOf(10, g)
                                  ELSE FilesOf(10, g) \o <<lnk>>)
  IN IF dirsFirst THEN <<sub>> \o FilesOf(0, f) ELSE FilesOf(0, f) \o <<sub>>

\* source_dir: a value that is not a path (os.walk raises on it), a missing
\* directory (os.walk yields nothing), or one of the trees.
Sources ==
  {[exists |-> FALSE, items |-> <<>>, path |-> FALSE],
   [exists |-> FALSE, items |-> <<>>, path |-> TRUE]} \cup
  { [exists |-> TRUE, items |-> Tree(f, g, h, d), path |-> TRUE] :
      f \in 0..MaxDirFiles, g \in 0..MaxDirFiles, h \in 0..MaxDirFiles,
      d \in BOOLEAN }

SourceDir == <<"/", "src">>

\* Variant: the count includes the directory names os.walk reports.
RECURSIVE WalkCountWithDirs(_)
WalkCountWithDirs(items) ==
  IF items = <<>> THEN 0
  ELSE LET n == Head(items)
       IN (CASE n.kind = "file" -> 1
             [] n.kind = "dir"  -> 1 + WalkCountWithDirs(n.children)
             [] OTHER           -> 1)
          + WalkCountWithDirs(Tail(items))

\* The count made by `for root, dirs, files in os.walk(source_dir)`:
\* os.walk does not descend into links to directories and does not list them
\* among the files.
RECURSIVE WalkCount(_)
WalkCount(items) ==
  IF items = <<>> THEN 0
  ELSE LET n == Head(items)
       IN (CASE n.kind = "file" -> 1
             [] n.kind = "dir"  -> WalkCount(n.children)
             [] OTHER           -> 0)
          + WalkCount(Tail(items))

\* The calls add_directory(dir_path, archive_prefix) makes, in order: one
\* os.listdir per directory, then per item either the recursion
\* (os.path.isdir is true for directories and for links to them) or the
\* addition of the file.
RECURSIVE AddItems(_, _, _)
AddDirectory(items, dir_path, archive_prefix) ==
  <<[kind |-> "listdir", item_path |-> dir_path, archive_path |-> archive_prefix,
     bytes |-> 0]>>
  \o AddItems(items, dir_path, archive_prefix)
\* Variant: the archive path is the file name without the accumulated prefix.
AddItemsNoPrefix(items, dir_path, archive_prefix) ==
  IF items = <<>> THEN <<>>
  ELSE LET n == Head(items)
           item_path == Append(dir_path, n.name)
           archive_path == <<n.name>>
       IN (IF n.kind = "file"
           THEN <<[kind |-> "file", item_path |-> item_path,
                   archive_path |-> archive_path, bytes |-> n.bytes]>>
           ELSE AddDirectory(n.children, item_path, archive_path))
          \o AddItems(Tail(items), dir_path, archive_prefix)

AddItems(items, dir_path, archive_prefix) ==
  IF items = <<>> THEN <<>>
  ELSE LET n == Head(items)
           item_path == Append(dir_path, n.name)
           archive_path == Append(archive_prefix, n.name)
       IN (IF n.kind = "file"
           THEN <<[kind |-> "file", item_path |-> item_path,
                   archive_path |-> archive_path, bytes |-> n.bytes]>>
           ELSE AddDirectory(n.children, item_path, archive_path))
          \o AddItems(Tail(items), dir_path, archive_prefix)

\* ---- scanned directories of decompile_directory --------------------------
\* A file name is <<stem, extension>>.  The i-th file found by os.walk:
\* every fifth name starting at the third is not a compiled script.
ScanFile(i) ==
  <<ToString(i),
    CASE i % 5 = 3 -> "rpy"
      [] i % 5 = 1 -> "rpyc"
      [] i % 5 = 2 -> "RPYC"
      [] i % 5 = 4 -> "Rpymc"
      [] OTHER     -> "rpymc">>

ScanDirs == { [i \in 1..n |-> ScanFile(i)] : n \in 0..MaxScan }

\* str.lower() on the extensions that occur.
Lower(e) ==
  CASE e = "RPYC"  -> "rpyc"
    [] e = "Rpymc" -> "rpymc"
    [] OTHER       -> e

\* file_lower.endswith('.rpyc') or file_lower.endswith('.rpymc')
IsCompiled(file) == Lower(file[2]) \in {"rpyc", "rpymc"}

\* The matches collected by the scan, in discovery order.
RECURSIVE FindRpyc(_)
FindRpyc(dir) ==
  IF dir = <<>> THEN <<>>
  ELSE (IF IsCompiled(Head(dir)) THEN <<Head(dir)>> ELSE <<>>) \o FindRpyc(Tail(dir))

\* The source_dir argument of decompile_directory.
SourceArgs == {"None", "", "missing", "dir", "notpath"}

\* ---- list_rpa_files ------------------------------------------------------
\* Position of an entry name in the string order used by files.sort().
Rank(name) ==
  LET i == CHOOSE k \in 1..MaxEntries : EntryName(k) = name
  IN CASE i = 3 -> 0
       [] OTHER -> i

RECURSIVE Insert(_, _)
Insert(x, sorted) ==
  IF sorted = <<>> THEN <<x>>
  ELSE IF Rank(x) <= Rank(Head(sorted)) THEN <<x>> \o sorted
  ELSE <<Head(sorted)>> \o Insert(x, Tail(sorted))

RECURSIVE Sort(_)
Sort(seq) == IF seq = <<>> THEN <<>> ELSE Insert(Head(seq), Sort(Tail(seq)))

\* The archive paths create_rpa can produce from the trees.
TreeNames ==
  UNION { { e.archive_path : e \in { x \in { AddDirectory(s.items, SourceDir, <<>>)[i] :
                                              i \in 1..Len(AddDirectory(s.items, SourceDir, <<>>)) } :
                                      x.kind = "file" } } : s \in Sources }

\* The paths extract_rpa can write to.
DestPaths == { PathJoin(OutputDir, n) : n \in EntryNames \cup TreeNames }

NoFile == 0         \* disk value: no file at that path
Partial == -1       \* disk value: file opened with 'wb' whose write failed

\* ---- messages -----------------------------------------------------------
Cause(site) == <<"<", site, ">">>                      \* str(e) of a collaborator fault
MsgTop(cause) == <<"Error: ">> \o cause                \* 'Error: {}'.format(str(e))
MsgExtract(name, cause) == <<"Error extracting ">> \o name \o <<": ">> \o cause
MsgAdd(item_path, cause) == <<"Error adding ">> \o item_path \o <<": ">> \o cause
MsgNoFiles == <<"No files found in source directory">>
MsgCreated(n) == <<"Successfully created archive with ", ToString(n), " files">>
MsgNone == <<"Source directory is None or empty">>
MsgMissing(dir) == <<"Source directory does not exist: ", dir>>
MsgNoRpyc == <<"No .rpyc files found in directory">>
MsgDecompiled(t, st) ==
  <<"Decompiled ", ToString(t), " files (", ToString(st.success), " successful, ",
    ToString(st.skipped), " skipped, ", ToString(st.failed), " failed)">>
MsgFound(n) == <<"Found ", ToString(n), " files">>
MsgExtracted(n) == <<"Successfully extracted ", ToString(n), " files">>

\* ---- snapshots and results ----------------------------------------------
Snapshot(operation, total, processed, current, status, err) ==
  [operation |-> operation, totalFiles |-> total, processedFiles |-> processed,
   currentFile |-> current, status |-> status, errorMessage |-> err]

ZeroStats == [total |-> 0, success |-> 0, skipped |-> 0, failed |-> 0]

Result(success, message, files, stats, version) ==
  [success |-> success, message |-> message, files |-> files,
   stats |-> stats, version |-> version]

NoResult == Result(FALSE, <<>>, <<>>, ZeroStats, "")

Unset == -1         \* a local variable that has not been assigned yet

VARIABLES
  op,               \* the public operation this run executes
  channel,          \* TRUE iff a progress_file was passed
  pc,               \* position of the run
  snaps,            \* snapshots handed to _write_progress, in order
  result,           \* dictionary returned to the caller (valid when pc = "done")
  escaped,          \* TRUE iff an exception left the public operation
  files,            \* extract_rpa / list_rpa_files: archive.list()
  total_files,      \* local total_files (Unset before assignment)
  idx,              \* loop index (extract_rpa, decompile_directory)
  extracted_files,  \* extract_rpa: local extracted_files
  reads,            \* extract_rpa: names passed to archive.read, in order
  disk,             \* extract_rpa: output files, destination path -> bytes
  source,           \* create_rpa: the directory source_dir names
  ev,               \* create_rpa: calls of add_directory already made
  file_index,       \* create_rpa: file_index[0] (Unset before assignment)
  added_files,      \* create_rpa: local added_files
  archive,          \* create_rpa: <<archive_path, bytes>> passed to archive.add
  saves,            \* create_rpa: archive contents written by archive.save
  source_dir,       \* decompile_directory: the source_dir argument
  scandir,          \* decompile_directory: files os.walk finds under source_dir
  rpyc_files,       \* decompile_directory: local rpyc_files
  stats,            \* decompile_directory: local stats
  attempts,         \* decompile_directory: <<file, outcome>> of each decompile_rpyc call
  has_rpy,          \* decompile_directory: matches (by position) whose .rpy exists
  wcall,            \* _write_progress: calls begun so far
  wpc,              \* _write_progress: position inside the current call
  wpos,             \* _write_progress: chunks of the current snapshot written
  chan_file,        \* content of progress_file: <<call, chunk>> per position
  seen              \* content the observer got at its last read

vars == <<op, channel, pc, snaps, result, escaped, files, total_files, idx,
          extracted_files, reads, disk, source, ev, file_index, added_files,
          archive, saves, source_dir, scandir, rpyc_files, stats, attempts,
          has_rpy, wcall, wpc, wpos, chan_file, seen>>

reporterVars == <<wcall, wpc, wpos, chan_file, seen>>
driverVars == <<op, channel, pc, snaps, result, escaped, files, total_files, idx,
                extracted_files, reads, disk, source, ev, file_index, added_files,
                archive, saves, source_dir, scandir, rpyc_files, stats, attempts,
                has_rpy>>

decompileVars == <<source_dir, scandir, rpyc_files, stats, attempts, has_rpy>>
extractVars == <<files, idx, extracted_files, reads, disk>>
createVars == <<source, ev, file_index, added_files, archive, saves>>

\* The codec on an archive that archive.save wrote: list() gives the added
\* paths in the order of addition, read(path) the bytes added under it.
SavedListing == [i \in 1..Len(saves[1]) |-> saves[1][i][1]]
SavedBytes(name) ==
  LET i == CHOOSE k \in 1..Len(saves[1]) : saves[1][k][1] = name
  IN saves[1][i][2]

\* archive.read(filename): the bytes stored for an entry.  In an archive
\* given as input every entry holds distinct bytes, represented by the
\* entry's index.
ArchiveRead(name) ==
  IF saves # <<>> THEN SavedBytes(name)
  ELSE CHOOSE i \in 1..MaxEntries : EntryName(i) = name

\* _write_progress(progress_file, data): a no-op without a channel.
WriteProgress(s, snap) == IF channel THEN Append(s, snap) ELSE s

\* Variant: the per-file try of decompile_directory does not enclose the
\* decompiler call, so its exception reaches the top-level handler.
TryRegionFileOuter(operation, site) ==
  CASE operation = "extract" /\ site \in {"open", "list", "makedirs"} -> "outer"
    [] operation = "extract" /\ site \in {"read", "makedirs_entry", "open_wb", "write"} -> "inner"
    [] operation = "create" /\ site \in {"walk", "new", "listdir", "save", "reraise"} -> "outer"
    [] operation = "create" /\ site \in {"open_rb", "read", "add"} -> "inner"
    [] operation = "decompile" /\ site \in {"exists", "context", "decompile_rpyc"} -> "outer"
    [] operation = "list" /\ site \in {"open", "list"} -> "outer"
    [] OTHER -> "none"

\* Variant: Context() is called before the top-level try is entered.
TryRegionContextNone(operation, site) ==
  CASE operation = "extract" /\ site \in {"open", "list", "makedirs"} -> "outer"
    [] operation = "extract" /\ site \in {"read", "makedirs_entry", "open_wb", "write"} -> "inner"
    [] operation = "create" /\ site \in {"walk", "new", "listdir", "save", "reraise"} -> "outer"
    [] operation = "create" /\ site \in {"open_rb", "read", "add"} -> "inner"
    [] operation = "decompile" /\ site \in {"exists"} -> "outer"
    [] operation = "decompile" /\ site \in {"decompile_rpyc"} -> "inner"
    [] operation = "list" /\ site \in {"open", "list"} -> "outer"
    [] OTHER -> "none"

\* Which handler encloses a call site: "inner" (the per-item try), "outer"
\* (the try around the whole body) or "none".
TryRegion(operation, site) ==
  CASE operation = "extract" /\ site \in {"open", "list", "makedirs"} -> "outer"
    [] operation = "extract" /\ site \in {"read", "makedirs_entry", "open_wb", "write"} -> "inner"
    [] operation = "create" /\ site \in {"walk", "new", "listdir", "save", "reraise"} -> "outer"
    [] operation = "create" /\ site \in {"open_rb", "read", "add"} -> "inner"
    [] operation = "decompile" /\ site \in {"exists", "context"} -> "outer"
    [] operation = "decompile" /\ site \in {"decompile_rpyc"} -> "inner"
    [] operation = "list" /\ site \in {"open", "list"} -> "outer"
    [] OTHER -> "none"

Init ==
  /\ op \in Ops
  /\ channel \in BOOLEAN
  /\ pc = "start"
  /\ snaps = <<>>
  /\ result = NoResult
  /\ escaped = FALSE
  /\ files \in (IF op \in {"extract", "list"} THEN Listings ELSE {<<>>})
  /\ total_files = Unset
  /\ idx = 0
  /\ extracted_files = <<>>
  /\ reads = <<>>
  /\ disk = [p \in DestPaths |-> NoFile]
  /\ source \in (IF op = "create" THEN Sources
                 ELSE {[exists |-> FALSE, items |-> <<>>, path |-> TRUE]})
  /\ ev = 0
  /\ file_index = Unset
  /\ added_files = <<>>
  /\ archive = <<>>
  /\ saves = <<>>
  /\ source_dir \in (IF op = "decompile" THEN SourceArgs ELSE {""})
  /\ scandir \in (IF op = "decompile" /\ source_dir = "dir" THEN ScanDirs ELSE {<<>>})
  /\ rpyc_files = <<>>
  /\ stats = [success |-> 0, skipped |-> 0, failed |-> 0]
  /\ attempts = <<>>
  /\ has_rpy \in SUBSET (1..Len(FindRpyc(scandir)))
  /\ wcall = 0
  /\ wpc = "idle"
  /\ wpos = 0
  /\ chan_file = <<>>
  /\ seen = <<>>

\* ---- extract_rpa --------------------------------------------------------
\* The handler `except Exception as e` at the end of extract_rpa.
ExtractTopFault(site) ==
  IF TryRegion("extract", site) = "outer"
  THEN /\ snaps' = WriteProgress(snaps,
                     Snapshot("extract", 0, 0, <<>>, "failed", MsgTop(Cause(site))))
       /\ result' = Result(FALSE, MsgTop(Cause(site)), <<>>, ZeroStats, "")
       /\ pc' = "done"
       /\ UNCHANGED escaped
  ELSE /\ escaped' = TRUE
       /\ pc' = "raised"
       /\ UNCHANGED <<snaps, result>>

\* RenPyArchive(rpa_file_path), archive.list(), total_files and the initial
\* snapshot.
ExtractLoad ==
  /\ op = "extract" /\ pc = "start"
  /\ total_files' = Len(files)
  /\ snaps' = WriteProgress(snaps,
       Snapshot("extract", Len(files), 0, <<"Loading archive...">>, "in_progress", <<>>))
  /\ pc' = "makedirs"
  /\ UNCHANGED <<op, channel, reporterVars, result, escaped, files, idx, extracted_files, reads, disk,
                 createVars, decompileVars>>

\* Opening the archive or listing it raises.
ExtractLoadFault ==
  /\ op = "extract" /\ pc = "start"
  /\ \E site \in {"open", "list"} : ExtractTopFault(site)
  /\ UNCHANGED <<op, channel, reporterVars, total_files, extractVars, createVars, decompileVars>>

\* os.makedirs(output_dir) when needed.
ExtractMakeDirs ==
  /\ op = "extract" /\ pc = "makedirs"
  /\ pc' = "loop"
  /\ UNCHANGED <<op, channel, reporterVars, snaps, result, escaped, total_files, extractVars,
                 createVars, decompileVars>>

ExtractMakeDirsFault ==
  /\ op = "extract" /\ pc = "makedirs"
  /\ ExtractTopFault("makedirs")
  /\ UNCHANGED <<op, channel, reporterVars, total_files, extractVars, createVars, decompileVars>>

\* Variant: a destination that already holds a file is not overwritten.
ExtractEntryKeepExisting ==
  /\ op = "extract" /\ pc = "loop" /\ idx < Len(files)
  /\ LET filename == files[idx + 1]
         output_path == PathJoin(OutputDir, filename)
     IN /\ reads' = Append(reads, filename)
        /\ disk' = IF disk[output_path] = NoFile
                   THEN [disk EXCEPT ![output_path] = ArchiveRead(filename)]
                   ELSE disk
        /\ extracted_files' = Append(extracted_files, filename)
        /\ snaps' = IF idx % 5 = 0 \/ idx = total_files - 1
                    THEN WriteProgress(snaps,
                           Snapshot("extract", total_files, idx + 1, filename,
                                    "in_progress", <<>>))
                    ELSE snaps
  /\ idx' = idx + 1
  /\ UNCHANGED <<op, channel, reporterVars, pc, result, escaped, files, total_files, createVars,
                 decompileVars>>

\* One iteration of the loop whose read, makedirs and write succeed.
ExtractEntry ==
  /\ op = "extract" /\ pc = "loop" /\ idx < Len(files)
  /\ LET filename == files[idx + 1]
         output_path == PathJoin(OutputDir, filename)
     IN /\ reads' = Append(reads, filename)
        /\ disk' = [disk EXCEPT ![output_path] = ArchiveRead(filename)]
        /\ extracted_files' = Append(extracted_files, filename)
        /\ snaps' = IF idx % 5 = 0 \/ idx = total_files - 1
                    THEN WriteProgress(snaps,
                           Snapshot("extract", total_files, idx + 1, filename,
                                    "in_progress", <<>>))
                    ELSE snaps
  /\ idx' = idx + 1
  /\ UNCHANGED <<op, channel, reporterVars, pc, result, escaped, files, total_files, createVars,
                 decompileVars>>

\* Variant: the payload also names the entry that failed.
ExtractFailureResultInclusive(error_msg) ==
  Result(FALSE, error_msg, Append(extracted_files, files[idx + 1]), ZeroStats, "")

\* The dictionary returned by the per-entry handler of extract_rpa.
ExtractFailureResult(error_msg) ==
  Result(FALSE, error_msg, extracted_files, ZeroStats, "")

\* One iteration of the loop in which a call inside the inner try raises.
ExtractEntryFault ==
  /\ op = "extract" /\ pc = "loop" /\ idx < Len(files)
  /\ \E site \in {"read", "makedirs_entry", "open_wb", "write"} :
       LET filename == files[idx + 1]
           output_path == PathJoin(OutputDir, filename)
           error_msg == MsgExtract(filename, Cause(site))
       IN /\ reads' = Append(reads, filename)
          /\ disk' = IF site = "write"
                     THEN [disk EXCEPT ![output_path] = Partial]
                     ELSE disk
          /\ IF TryRegion("extract", site) = "inner"
             THEN /\ snaps' = WriteProgress(snaps,
                      Snapshot("extract", total_files, idx, filename, "failed", error_msg))
                  /\ result' = ExtractFailureResult(error_msg)
                  /\ pc' = "done"
                  /\ UNCHANGED escaped
             ELSE ExtractTopFault(site)
  /\ UNCHANGED <<op, channel, reporterVars, files, total_files, idx, extracted_files, createVars,
                 decompileVars>>

\* Variant: the success result is returned without the completed snapshot.
ExtractCompleteSilent ==
  /\ op = "extract" /\ pc = "loop" /\ idx = Len(files)
  /\ result' = Result(TRUE, MsgExtracted(Len(extracted_files)), extracted_files,
                      ZeroStats, "")
  /\ pc' = "done"
  /\ UNCHANGED <<op, channel, reporterVars, snaps, escaped, total_files, extractVars,
                 createVars, decompileVars>>

\* The loop is exhausted: completed snapshot and the success result.
ExtractComplete ==
  /\ op = "extract" /\ pc = "loop" /\ idx = Len(files)
  /\ snaps' = WriteProgress(snaps,
       Snapshot("extract", total_files, total_files, <<"Complete">>, "completed", <<>>))
  /\ result' = Result(TRUE, MsgExtracted(Len(extracted_files)), extracted_files,
                      ZeroStats, "")
  /\ pc' = "done"
  /\ UNCHANGED <<op, channel, reporterVars, escaped, total_files, extractVars, createVars, decompileVars>>

\* ---- create_rpa ---------------------------------------------------------
CreateEvents == AddDirectory(source.items, SourceDir, <<>>)

\* 'x if "x" in locals() else 0'
LocalOrZero(x) == IF x # Unset THEN x ELSE 0

\* The handler `except Exception as e` at the end of create_rpa; total and
\* index are the locals total_files and file_index[0] at the time of the fault.
CreateTopFault(site, cause, s, total, index) ==
  IF TryRegion("create", site) = "outer"
  THEN /\ snaps' = WriteProgress(s,
                     Snapshot("create", LocalOrZero(total), LocalOrZero(index), <<>>,
                              "failed", MsgTop(cause)))
       /\ result' = Result(FALSE, MsgTop(cause), <<>>, ZeroStats, "")
       /\ pc' = "done"
       /\ UNCHANGED escaped
  ELSE /\ escaped' = TRUE
       /\ pc' = "raised"
       /\ snaps' = s
       /\ UNCHANGED result

\* The counting pass found no file: failed snapshot and result.
CreateCountEmpty ==
  /\ op = "create" /\ pc = "start"
  /\ source.path
  /\ WalkCount(source.items) = 0
  /\ total_files' = 0
  /\ snaps' = WriteProgress(snaps,
                Snapshot("create", 0, 0, <<>>, "failed", MsgNoFiles))
  /\ result' = Result(FALSE, MsgNoFiles, <<>>, ZeroStats, "")
  /\ pc' = "done"
  /\ UNCHANGED <<op, channel, reporterVars, escaped, extractVars, createVars, decompileVars>>

\* The counting pass found files: initial snapshot.
CreateCount ==
  /\ op = "create" /\ pc = "start"
  /\ source.path
  /\ WalkCount(source.items) > 0
  /\ total_files' = WalkCount(source.items)
  /\ snaps' = WriteProgress(snaps,
                Snapshot("create", WalkCount(source.items), 0,
                         <<"Initializing archive...">>, "in_progress", <<>>))
  /\ pc' = "new"
  /\ UNCHANGED <<op, channel, reporterVars, result, escaped, extractVars, createVars, decompileVars>>

\* os.walk raises (total_files was set to 0 on the line before).
CreateCountFault ==
  /\ op = "create" /\ pc = "start"
  /\ ~source.path
  /\ total_files' = 0
  /\ CreateTopFault("walk", Cause("walk"), snaps, 0, file_index)
  /\ UNCHANGED <<op, channel, reporterVars, extractVars, createVars, decompileVars>>

\* archive = RenPyArchive(version, key); added_files = []; file_index = [0]
CreateNewArchive ==
  /\ op = "create" /\ pc = "new"
  /\ file_index' = 0
  /\ pc' = "add"
  /\ UNCHANGED <<op, channel, reporterVars, snaps, result, escaped, total_files, extractVars,
                 source, ev, added_files, archive, saves, decompileVars>>

CreateNewArchiveFault ==
  /\ op = "create" /\ pc = "new"
  /\ CreateTopFault("new", Cause("new"), snaps, total_files, file_index)
  /\ UNCHANGED <<op, channel, reporterVars, total_files, extractVars, createVars, decompileVars>>

\* os.listdir(dir_path) at the start of a call of add_directory.
CreateListDir ==
  /\ op = "create" /\ pc = "add" /\ ev < Len(CreateEvents)
  /\ CreateEvents[ev + 1].kind = "listdir"
  /\ ev' = ev + 1
  /\ UNCHANGED <<op, channel, reporterVars, pc, snaps, result, escaped, total_files, extractVars,
                 source, file_index, added_files, archive, saves, decompileVars>>

CreateListDirFault ==
  /\ op = "create" /\ pc = "add" /\ ev < Len(CreateEvents)
  /\ CreateEvents[ev + 1].kind = "listdir"
  /\ CreateTopFault("listdir", Cause("listdir"), snaps, total_files, file_index)
  /\ UNCHANGED <<op, channel, reporterVars, total_files, extractVars, createVars, decompileVars>>

\* A file is read and added to the archive.
CreateAddFile ==
  /\ op = "create" /\ pc = "add" /\ ev < Len(CreateEvents)
  /\ CreateEvents[ev + 1].kind = "file"
  /\ LET e == CreateEvents[ev + 1]
     IN /\ archive' = Append(archive, <<e.archive_path, e.bytes>>)
        /\ added_files' = Append(added_files, e.archive_path)
        /\ file_index' = file_index + 1
        /\ snaps' = IF (file_index + 1) % 5 = 0 \/ file_index + 1 = total_files
                    THEN WriteProgress(snaps,
                           Snapshot("create", total_files, file_index + 1,
                                    e.archive_path, "in_progress", <<>>))
                    ELSE snaps
  /\ ev' = ev + 1
  /\ UNCHANGED <<op, channel, reporterVars, pc, result, escaped, total_files, extractVars,
                 source, saves, decompileVars>>

\* Variant: the inner handler writes the failed snapshot and the walk goes on
\* with the next item instead of raising.
CreateAddFileFaultSwallow ==
  /\ op = "create" /\ pc = "add" /\ ev < Len(CreateEvents)
  /\ CreateEvents[ev + 1].kind = "file"
  /\ \E site \in {"open_rb", "read", "add"} :
       LET e == CreateEvents[ev + 1]
           error_msg == MsgAdd(e.item_path, Cause(site))
       IN snaps' = WriteProgress(snaps,
                     Snapshot("create", total_files, file_index, e.archive_path,
                              "failed", error_msg))
  /\ ev' = ev + 1
  /\ UNCHANGED <<op, channel, reporterVars, pc, result, escaped, total_files, extractVars,
                 source, file_index, added_files, archive, saves, decompileVars>>

\* Reading or adding a file raises: the inner handler writes a failed
\* snapshot and raises Exception(error_msg), which the outer handler catches.
CreateAddFileFault ==
  /\ op = "create" /\ pc = "add" /\ ev < Len(CreateEvents)
  /\ CreateEvents[ev + 1].kind = "file"
  /\ \E site \in {"open_rb", "read", "add"} :
       LET e == CreateEvents[ev + 1]
           error_msg == MsgAdd(e.item_path, Cause(site))
       IN IF TryRegion("create", site) = "inner"
          THEN CreateTopFault("reraise", error_msg,
                 WriteProgress(snaps,
                   Snapshot("create", total_files, file_index, e.archive_path,
                            "failed", error_msg)),
                 total_files, file_index)
          ELSE CreateTopFault(site, Cause(site), snaps, total_files, file_index)
  /\ UNCHANGED <<op, channel, reporterVars, total_files, extractVars, createVars, decompileVars>>

\* The walk is over: archive.save, completed snapshot and the success result.
CreateSave ==
  /\ op = "create" /\ pc = "add" /\ ev = Len(CreateEvents)
  /\ saves' = Append(saves, archive)
  /\ snaps' = WriteProgress(snaps,
       Snapshot("create", total_files, total_files, <<"Complete">>, "completed", <<>>))
  /\ result' = Result(TRUE, MsgCreated(Len(added_files)), added_files, ZeroStats, "")
  /\ pc' = "done"
  /\ UNCHANGED <<op, channel, reporterVars, escaped, total_files, extractVars,
                 source, ev, file_index, added_files, archive, decompileVars>>

CreateSaveFault ==
  /\ op = "create" /\ pc = "add" /\ ev = Len(CreateEvents)
  /\ CreateTopFault("save", Cause("save"), snaps, total_files, file_index)
  /\ UNCHANGED <<op, channel, reporterVars, total_files, extractVars, createVars, decompileVars>>

\* ---- decompile_directory ------------------------------------------------
DecompileFail(msg) ==
  /\ snaps' = WriteProgress(snaps, Snapshot("decompile", 0, 0, <<>>, "failed", msg))
  /\ result' = Result(FALSE, msg, <<>>, ZeroStats, "")
  /\ pc' = "done"

\* The handler `except Exception as e` at the end of decompile_directory.
DecompileTopFault(site) ==
  IF TryRegion("decompile", site) = "outer"
  THEN /\ snaps' = WriteProgress(snaps,
                     Snapshot("decompile", LocalOrZero(total_files), 0, <<>>,
                              "failed", MsgTop(Cause(site))))
       /\ result' = Result(FALSE, MsgTop(Cause(site)), <<>>, ZeroStats, "")
       /\ pc' = "done"
       /\ UNCHANGED escaped
  ELSE /\ escaped' = TRUE
       /\ pc' = "raised"
       /\ UNCHANGED <<snaps, result>>

\* source_dir is None or ''.
DecompileNoSource ==
  /\ op = "decompile" /\ pc = "start"
  /\ source_dir \in {"None", ""}
  /\ DecompileFail(MsgNone)
  /\ UNCHANGED <<op, channel, reporterVars, escaped, total_files, extractVars, createVars,
                 decompileVars>>

\* Variant: the existence check is absent, so the scan runs on the missing
\* directory and finds nothing.
DecompileMissingScans ==
  /\ op = "decompile" /\ pc = "start"
  /\ source_dir = "missing"
  /\ rpyc_files' = <<>>
  /\ total_files' = 0
  /\ DecompileFail(MsgNoRpyc)
  /\ UNCHANGED <<op, channel, reporterVars, escaped, extractVars, createVars,
                 source_dir, scandir, stats, attempts, has_rpy>>

\* os.path.exists(source_dir) is false.
DecompileMissing ==
  /\ op = "decompile" /\ pc = "start"
  /\ source_dir = "missing"
  /\ DecompileFail(MsgMissing(source_dir))
  /\ UNCHANGED <<op, channel, reporterVars, escaped, total_files, extractVars, createVars,
                 decompileVars>>

\* os.path.exists(source_dir) raises: source_dir is not a path.
DecompileExistsFault ==
  /\ op = "decompile" /\ pc = "start"
  /\ source_dir = "notpath"
  /\ DecompileTopFault("exists")
  /\ UNCHANGED <<op, channel, reporterVars, total_files, extractVars, createVars, decompileVars>>

\* The scan finds no compiled script.
DecompileNoMatches ==
  /\ op = "decompile" /\ pc = "start"
  /\ source_dir = "dir"
  /\ FindRpyc(scandir) = <<>>
  /\ rpyc_files' = <<>>
  /\ total_files' = 0
  /\ DecompileFail(MsgNoRpyc)
  /\ UNCHANGED <<op, channel, reporterVars, escaped, extractVars, createVars,
                 source_dir, scandir, stats, attempts, has_rpy>>

\* The scan finds compiled scripts: total_files and the initial snapshot.
DecompileScan ==
  /\ op = "decompile" /\ pc = "start"
  /\ source_dir = "dir"
  /\ FindRpyc(scandir) # <<>>
  /\ rpyc_files' = FindRpyc(scandir)
  /\ total_files' = Len(FindRpyc(scandir))
  /\ snaps' = WriteProgress(snaps,
       Snapshot("decompile", Len(FindRpyc(scandir)), 0, <<"Scanning files...">>,
                "in_progress", <<>>))
  /\ pc' = "loop"
  /\ UNCHANGED <<op, channel, reporterVars, result, escaped, extractVars, createVars,
                 source_dir, scandir, stats, attempts, has_rpy>>

\* Context() raises at the head of an iteration, outside the per-file try.
DecompileContextFault ==
  /\ op = "decompile" /\ pc = "loop" /\ idx < Len(rpyc_files)
  /\ DecompileTopFault("context")
  /\ UNCHANGED <<op, channel, reporterVars, total_files, extractVars, createVars, decompileVars>>

\* The progress snapshot written before a file is processed.
DecompileProgress(s) ==
  IF idx % 5 = 0 \/ idx = total_files - 1
  THEN WriteProgress(s,
         Snapshot("decompile", total_files, idx, <<rpyc_files[idx + 1][1], ".",
                  rpyc_files[idx + 1][2]>>, "in_progress", <<>>))
  ELSE s

\* Variant: a skipped file is counted as a success.
TallySkipAsSuccess(st, state) ==
  CASE state \in {"ok", "skip"} -> [st EXCEPT !.success = @ + 1]
    [] OTHER                    -> [st EXCEPT !.failed = @ + 1]

\* Variant: a state other than ok and skip is not counted.
TallyNoElse(st, state) ==
  CASE state = "ok"   -> [st EXCEPT !.success = @ + 1]
    [] state = "skip" -> [st EXCEPT !.skipped = @ + 1]
    [] OTHER          -> st

\* The counter that context.state selects.
Tally(st, state) ==
  CASE state = "ok"   -> [st EXCEPT !.success = @ + 1]
    [] state = "skip" -> [st EXCEPT !.skipped = @ + 1]
    [] OTHER          -> [st EXCEPT !.failed = @ + 1]

ContextStates == {"ok", "skip", "error"}

\* One iteration in which decompile_rpyc returns; with overwrite=False it
\* reports "skip" exactly when the .rpy of the file already exists.
DecompileFile ==
  /\ op = "decompile" /\ pc = "loop" /\ idx < Len(rpyc_files)
  /\ snaps' = DecompileProgress(snaps)
  /\ \E state \in ContextStates :
       /\ state = "skip" <=> (idx + 1) \in has_rpy
       /\ attempts' = Append(attempts, <<rpyc_files[idx + 1], state>>)
       /\ stats' = Tally(stats, state)
  /\ idx' = idx + 1
  /\ UNCHANGED <<op, channel, reporterVars, pc, result, escaped, files, total_files,
                 extracted_files, reads, disk, createVars,
                 source_dir, scandir, rpyc_files, has_rpy>>

\* One iteration in which decompile_rpyc raises.
DecompileFileFault ==
  /\ op = "decompile" /\ pc = "loop" /\ idx < Len(rpyc_files)
  /\ (idx + 1) \notin has_rpy
  /\ attempts' = Append(attempts, <<rpyc_files[idx + 1], "raise">>)
  /\ IF TryRegion("decompile", "decompile_rpyc") = "inner"
     THEN /\ snaps' = DecompileProgress(snaps)
          /\ stats' = [stats EXCEPT !.failed = @ + 1]
          /\ idx' = idx + 1
          /\ UNCHANGED <<pc, result, escaped>>
     ELSE /\ DecompileTopFault("decompile_rpyc")
          /\ UNCHANGED <<stats, idx>>
  /\ UNCHANGED <<op, channel, reporterVars, files, total_files,
                 extracted_files, reads, disk, createVars,
                 source_dir, scandir, rpyc_files, has_rpy>>

\* The loop is exhausted: completed snapshot and the success result.
DecompileComplete ==
  /\ op = "decompile" /\ pc = "loop" /\ idx = Len(rpyc_files)
  /\ snaps' = WriteProgress(snaps,
       Snapshot("decompile", total_files, total_files, <<"Complete">>, "completed", <<>>))
  /\ result' = Result(TRUE, MsgDecompiled(total_files, stats), <<>>,
                      [total |-> total_files, success |-> stats.success,
                       skipped |-> stats.skipped, failed |-> stats.failed], "")
  /\ pc' = "done"
  /\ UNCHANGED <<op, channel, reporterVars, escaped, total_files, extractVars, createVars,
                 decompileVars>>

\* ---- list_rpa_files -----------------------------------------------------
ArchiveVersion == "3.0"

ListFiles ==
  /\ op = "list" /\ pc = "start"
  /\ result' = Result(TRUE, MsgFound(Len(files)), Sort(files), ZeroStats, ArchiveVersion)
  /\ pc' = "done"
  /\ UNCHANGED <<op, channel, reporterVars, snaps, escaped, total_files, extractVars, createVars,
                 decompileVars>>

ListFault ==
  /\ op = "list" /\ pc = "start"
  /\ \E site \in {"open", "list"} :
       IF TryRegion("list", site) = "outer"
       THEN /\ result' = Result(FALSE, MsgTop(Cause(site)), <<>>, ZeroStats, "unknown")
            /\ pc' = "done"
            /\ UNCHANGED escaped
       ELSE /\ escaped' = TRUE
            /\ pc' = "raised"
            /\ UNCHANGED result
  /\ UNCHANGED <<op, channel, reporterVars, snaps, total_files, extractVars, createVars,
                 decompileVars>>

\* ---- create_rpa followed by extract_rpa -----------------------------------
\* The caller extracts the archive a successful create_rpa wrote.
RoundTripExtract ==
  /\ op = "create" /\ pc = "done" /\ result.success
  /\ op' = "extract"
  /\ pc' = "start"
  /\ files' = SavedListing
  /\ snaps' = <<>>
  /\ result' = NoResult
  /\ total_files' = Unset
  /\ UNCHANGED <<channel, reporterVars, escaped, idx, extracted_files, reads, disk,
                 createVars, decompileVars>>

\* ---- _write_progress at the level of the file ---------------------------
\* Variant: the file is opened without truncation and written from offset 0.
OpenKeep(content) == content

\* open(progress_file, 'w'): the prior content is dropped.
OpenW(content) == <<>>

\* f.write(chunk) at offset pos - 1 of the open file.
WriteAt(content, pos, piece) ==
  IF pos <= Len(content) THEN [content EXCEPT ![pos] = piece]
  ELSE Append(content, piece)

\* `if not progress_file: return`
ReportNoChannel ==
  /\ ~channel /\ wpc = "idle" /\ wcall < MaxWrites
  /\ wcall' = wcall + 1
  /\ UNCHANGED <<wpc, wpos, chan_file, seen, driverVars>>

\* `with open(progress_file, 'w') as f`
ReportOpen ==
  /\ channel /\ wpc = "idle" /\ wcall < MaxWrites
  /\ wcall' = wcall + 1
  /\ chan_file' = OpenW(chan_file)
  /\ wpos' = 0
  /\ wpc' = "open"
  /\ UNCHANGED <<seen, driverVars>>

\* open raises; the bare except swallows it.
ReportOpenFault ==
  /\ channel /\ wpc = "idle" /\ wcall < MaxWrites
  /\ wcall' = wcall + 1
  /\ UNCHANGED <<wpc, wpos, chan_file, seen, driverVars>>

\* json.dump(data, f) writes the next chunk of the snapshot.
ReportDump ==
  /\ wpc = "open" /\ wpos < MaxChunks
  /\ chan_file' = WriteAt(chan_file, wpos + 1, <<wcall, wpos + 1>>)
  /\ wpos' = wpos + 1
  /\ UNCHANGED <<wcall, wpc, seen, driverVars>>

\* json.dump raises; the file is closed as it is and the bare except
\* swallows the exception.
ReportDumpFault ==
  /\ wpc = "open" /\ wpos < MaxChunks
  /\ wpc' = "idle"
  /\ UNCHANGED <<wcall, wpos, chan_file, seen, driverVars>>

\* The with block ends: the file is closed.
ReportClose ==
  /\ wpc = "open" /\ wpos = MaxChunks
  /\ wpc' = "idle"
  /\ UNCHANGED <<wcall, wpos, chan_file, seen, driverVars>>

\* The observer reads the whole file.
Observe ==
  /\ seen' = chan_file
  /\ UNCHANGED <<wcall, wpc, wpos, chan_file, driverVars>>

InitChannel ==
  /\ Init
  /\ op = "list"
  /\ files = <<>>

NextChannel ==
  \/ ReportNoChannel
  \/ ReportOpen
  \/ ReportOpenFault
  \/ ReportDump
  \/ ReportDumpFault
  \/ ReportClose
  \/ Observe

SpecChannel == InitChannel /\ [][NextChannel]_vars

Next ==
  \/ ExtractLoad
  \/ ExtractLoadFault
  \/ ExtractMakeDirs
  \/ ExtractMakeDirsFault
  \/ ExtractEntry
  \/ ExtractEntryFault
  \/ ExtractComplete
  \/ CreateCountEmpty
  \/ CreateCount
  \/ CreateCountFault
  \/ CreateNewArchive
  \/ CreateNewArchiveFault
  \/ CreateListDir
  \/ CreateListDirFault
  \/ CreateAddFile
  \/ CreateAddFileFault
  \/ CreateSave
  \/ CreateSaveFault
  \/ DecompileNoSource
  \/ DecompileMissing
  \/ DecompileExistsFault
  \/ DecompileNoMatches
  \/ DecompileScan
  \/ DecompileContextFault
  \/ DecompileFile
  \/ DecompileFileFault
  \/ DecompileComplete
  \/ ListFiles
  \/ ListFault
  \/ RoundTripExtract

Spec == Init /\ [][Next]_vars
\* ==== properties =========================================================
Terminal == {"completed", "failed"}

\* extract_rpa returned from the per-entry handler: entry idx + 1 was passed
\* to archive.read but the loop index did not advance.
EntryFailed == op = "extract" /\ pc = "done" /\ Len(reads) = idx + 1

\* Destination paths that hold a file (complete or partial).
Written == { p \in DestPaths : disk[p] # NoFile }

\* C1: when entry k = idx + 1 of the listing fails in extract_rpa, the call
\* returns success = false, files is exactly the first k - 1 entries of the
\* listing, and no entry after k has been read from the archive or written.
C1_FailFastExtract ==
  EntryFailed =>
    /\ result.success = FALSE
    /\ result.files = SubSeq(files, 1, idx)
    /\ reads = SubSeq(files, 1, idx + 1)
    /\ Written \subseteq { PathJoin(OutputDir, files[j]) : j \in 1..(idx + 1) }

\* Entry 3 of a listing of at least four entries failed.
C1_Witness ==
  /\ EntryFailed /\ idx = 2 /\ Len(files) >= 4
  /\ Len(result.files) = 2
\* create_rpa returned after reading or adding a file failed.
AddFailed ==
  /\ op = "create" /\ pc = "done"
  /\ Len(result.message) >= 2 /\ result.message[2] = "Error adding "

\* C2: when reading or adding a file fails in create_rpa after j files were
\* added, the result has success = false and its files payload is the list
\* of the j archive paths added so far, in order.
C2_PartialPayload ==
  AddFailed => result.success = FALSE /\ result.files = added_files

\* The files add_directory meets, in the order it meets them.
IsFileEvent(e) == e.kind = "file"
FileEvents == SelectSeq(CreateEvents, IsFileEvent)
AllEntries == [i \in 1..Len(FileEvents) |->
                 <<FileEvents[i].archive_path, FileEvents[i].bytes>>]

\* C3: archive.save is invoked at most once, only after every file add_directory
\* meets has been read and added without error, and never on a run of
\* create_rpa that ends in failure.
C3_SaveOnlyAfterFullWalk ==
  op = "create" =>
    /\ Len(saves) <= 1
    /\ saves # <<>> =>
         /\ ev = Len(CreateEvents)
         /\ archive = AllEntries
         /\ saves[1] = archive
         /\ pc = "done" /\ result.success
    /\ (pc = "done" /\ ~result.success) => saves = <<>>

\* A nested tree of at least three files was saved.
C3_Witness ==
  /\ op = "create" /\ Len(saves) = 1 /\ Len(saves[1]) >= 3
  /\ \E i \in 1..Len(saves[1]) : Len(saves[1][i][1]) = 3

AttemptedFiles == [i \in 1..Len(attempts) |-> attempts[i][1]]

\* C4: in decompile_directory a failure on a matched file (a context state
\* other than ok/skip, or an exception of the decompiler) does not abort the
\* batch: the files attempted are always exactly the first idx matches, each
\* once and in discovery order, a returned success covers all matches, and a
\* returned failure is a bad source_dir, zero matches or a top-level fault.
C4_ContinueOnError ==
  op = "decompile" =>
    /\ AttemptedFiles = SubSeq(rpyc_files, 1, idx)
    /\ (pc = "done" /\ result.success) => idx = Len(rpyc_files)
    /\ (pc = "done" /\ ~result.success) =>
         /\ result.message \in {MsgNone, MsgMissing(source_dir), MsgNoRpyc,
                                MsgTop(Cause("exists")), MsgTop(Cause("context"))}
         /\ (result.message = MsgTop(Cause("context")) \/ attempts = <<>>)
    /\ (pc = "loop" /\ idx = Len(rpyc_files)) => ENABLED DecompileComplete

\* A batch in which one file raised and another ended in an error state
\* returned success after all files were attempted.
C4_Witness ==
  /\ op = "decompile" /\ pc = "done" /\ result.success
  /\ Len(attempts) >= 3
  /\ \E i, j \in 1..Len(attempts) : attempts[i][2] = "raise" /\ attempts[j][2] = "error"

ExtractSucceeded == op = "extract" /\ pc = "done" /\ result.success
Dest(k) == PathJoin(OutputDir, files[k])

\* C5 as stated: after a run of extract_rpa whose every read and write
\* succeeds, files is the listing in order and each listed path holds the
\* bytes the codec returned for that entry.
C5_EachEntryOnDisk ==
  ExtractSucceeded =>
    /\ result.files = files
    /\ \A k \in 1..Len(files) : disk[Dest(k)] = ArchiveRead(files[k])

\* The last entry of the listing with the destination of entry k.
LastWriter(k) ==
  CHOOSE j \in k..Len(files) :
    /\ Dest(j) = Dest(k)
    /\ \A m \in (j + 1)..Len(files) : Dest(m) # Dest(k)

\* C5 amended: after such a run files is the listing in order, and each
\* listed path holds the bytes the codec returned for the last entry of the
\* listing that os.path.join maps to the same destination; nothing else is
\* written.
C5_LastWriterOnDisk ==
  ExtractSucceeded =>
    /\ result.files = files
    /\ \A k \in 1..Len(files) : disk[Dest(k)] = ArchiveRead(files[LastWriter(k)])
    /\ Written = { Dest(k) : k \in 1..Len(files) }

\* A successful extraction of a listing in which two entries share a
\* destination.
C5_Witness ==
  /\ ExtractSucceeded /\ Len(files) >= 3
  /\ \E j, k \in 1..Len(files) : j < k /\ Dest(j) = Dest(k)
  /\ \E k \in 1..Len(files) : LastWriter(k) = k /\ disk[Dest(k)] = ArchiveRead(files[k])

\* C6: no exception leaves a public operation, whichever collaborator call
\* raises: every run that has not returned can go on, and none ends raised.
C6_NoEscape ==
  /\ escaped = FALSE
  /\ pc # "raised"
  /\ pc # "done" => ENABLED Next

\* Context() raised in a later iteration and the call returned a failure.
C6_Witness ==
  /\ op = "decompile" /\ pc = "done" /\ idx >= 1
  /\ result.success = FALSE /\ result.message = MsgTop(Cause("context"))

Drivers == {"extract", "create", "decompile"}
TerminalSnaps == { i \in 1..Len(snaps) : snaps[i].status \in Terminal }

\* C7: a run of extract_rpa, create_rpa or decompile_directory with a channel
\* attached writes exactly one terminal snapshot.
C7_OneTerminal ==
  (op \in Drivers /\ channel /\ pc = "done") => Cardinality(TerminalSnaps) = 1

\* C8: the snapshots of a run have non-decreasing processedFiles.
C8_ProcessedMonotone ==
  \A i, j \in 1..Len(snaps) :
    i < j => snaps[i].processedFiles <= snaps[j].processedFiles

\* C9: every snapshot written once total_files is computed carries that value.
C9_TotalFixed ==
  total_files # Unset =>
    \A i \in 1..Len(snaps) : snaps[i].totalFiles = total_files

\* C10: in every snapshot processedFiles does not exceed totalFiles.
C10_ProcessedBounded ==
  \A i \in 1..Len(snaps) : snaps[i].processedFiles <= snaps[i].totalFiles

FailedSnaps == { i \in 1..Len(snaps) : snaps[i].status = "failed" }

\* C11: when a driver returns success = false with a channel attached, every
\* failed snapshot of the run carries an errorMessage equal to the returned
\* message.
C11_SameMessage ==
  (op \in Drivers /\ channel /\ pc = "done" /\ ~result.success) =>
    \A i \in FailedSnaps : snaps[i].errorMessage = result.message

\* A file of the source tree that is not below a linked directory.
IsRealFile(e) ==
  e.kind = "file" /\ \A c \in 1..Len(e.archive_path) : e.archive_path[c] # "lnk"

\* source_dir is a path that does not exist or holds no file recursively.
NoSourceFiles ==
  op = "create" /\ source.path /\ SelectSeq(CreateEvents, IsRealFile) = <<>>

\* C12: create_rpa on a source directory that does not exist or holds no
\* file returns success = false with the 'no files found' message and an
\* empty files list, writes a single failed snapshot with totalFiles = 0, and
\* neither instantiates an archive nor calls add or save.
C12_NoFilesNoArchive ==
  NoSourceFiles =>
    /\ pc \in {"start", "done"}
    /\ file_index = Unset /\ archive = <<>> /\ saves = <<>>
    /\ pc = "done" =>
         /\ result = Result(FALSE, MsgNoFiles, <<>>, ZeroStats, "")
         /\ snaps = IF channel
                    THEN <<Snapshot("create", 0, 0, <<>>, "failed", MsgNoFiles)>>
                    ELSE <<>>

\* create_rpa returned for an existing tree of directories without files.
C12_Witness ==
  /\ NoSourceFiles /\ source.exists /\ source.items # <<>>
  /\ pc = "done" /\ channel /\ Len(snaps) = 1

\* The compiled scripts under the scanned directory, by position.
Compiled == { i \in 1..Len(scandir) : Lower(scandir[i][2]) \in {"rpyc", "rpymc"} }

\* decompile_directory returned without a top-level fault on a directory
\* that holds compiled scripts.
BatchReturned ==
  /\ op = "decompile" /\ pc = "done" /\ source_dir = "dir" /\ Compiled # {}
  /\ Len(attempts) = Cardinality(Compiled)

\* C13: for a directory with P compiled scripts of which Q have a decompiled
\* counterpart, decompile_directory returns success = true with
\* stats.skipped = Q and stats.total = P, whatever the other files do.
C13_SkippedCount ==
  BatchReturned =>
    /\ result.success
    /\ result.stats.skipped = Cardinality(has_rpy)
    /\ result.stats.total = Cardinality(Compiled)

\* A batch with two counterparts in which another file failed and another
\* raised.
C13_Witness ==
  /\ BatchReturned /\ Cardinality(has_rpy) = 2 /\ Cardinality(Compiled) >= 5
  /\ \E i, j \in 1..Len(attempts) : attempts[i][2] = "raise" /\ attempts[j][2] = "error"
  /\ result.stats.skipped = 2

\* C15: whatever the observer reads from the progress file, at any point of
\* any call of _write_progress, is made of chunks of a single snapshot (a
\* prefix of it): never chunks of an old snapshot mixed with a new one.
C15_NoTornRead ==
  /\ \A i, j \in 1..Len(seen) : seen[i][1] = seen[j][1]
  /\ \A i \in 1..Len(seen) : seen[i][2] = i

\* The observer read the first chunk of a later snapshot while it was being
\* written over a complete earlier one.
C15_Witness ==
  /\ wpc = "open" /\ wcall >= 2 /\ wpos = 1
  /\ seen = <<<<wcall, 1>>>>

\* C16: decompile_directory with a source_dir that is None, empty or missing
\* returns success = false with the message of the failed check and all-zero
\* stats, writes exactly one snapshot (failed, totalFiles = 0), and neither
\* scans the directory nor calls the decompiler.
C16_BadSourceDir ==
  (op = "decompile" /\ source_dir \in {"None", "", "missing"}) =>
    /\ pc \in {"start", "done"}
    /\ total_files = Unset /\ rpyc_files = <<>> /\ attempts = <<>>
    /\ pc = "done" =>
         LET msg == IF source_dir = "missing" THEN MsgMissing(source_dir) ELSE MsgNone
         IN /\ result = Result(FALSE, msg, <<>>, ZeroStats, "")
            /\ snaps = IF channel
                       THEN <<Snapshot("decompile", 0, 0, <<>>, "failed", msg)>>
                       ELSE <<>>

\* decompile_directory returned for a missing directory with a channel.
C16_Witness ==
  /\ op = "decompile" /\ source_dir = "missing" /\ pc = "done" /\ channel
  /\ Len(snaps) = 1 /\ result.message = MsgMissing(source_dir)

\* The path of a source file relative to source_dir.
Relative(item_path) == SubSeq(item_path, Len(SourceDir) + 1, Len(item_path))

\* The files of the source tree: <<relative path, bytes>>.
SourceFiles ==
  { <<Relative(CreateEvents[i].item_path), CreateEvents[i].bytes>> :
      i \in { k \in 1..Len(CreateEvents) : CreateEvents[k].kind = "file" } }

\* extract_rpa succeeded on the archive create_rpa wrote.
RoundTripDone == op = "extract" /\ saves # <<>> /\ pc = "done" /\ result.success

\* C17: after create_rpa succeeded on a tree and extract_rpa succeeded on the
\* archive it wrote, every file of the tree is in the output directory at the
\* same relative path with the same bytes, and nothing else was written.
C17_RoundTrip ==
  RoundTripDone =>
    /\ \A f \in SourceFiles :
         \E p \in Written : p = OutputDir \o f[1] /\ disk[p] = f[2]
    /\ Written = { OutputDir \o f[1] : f \in SourceFiles }

\* A round trip of a tree with files at three levels.
C17_Witness ==
  /\ RoundTripDone /\ Cardinality(SourceFiles) >= 3
  /\ \E f, g, h \in SourceFiles : Len(f[1]) = 1 /\ Len(g[1]) = 2 /\ Len(h[1]) = 3

\* Processed counts of the in-progress snapshots written after an item.
ItemSnapshots ==
  { snaps[i].processedFiles :
      i \in { k \in 1..Len(snaps) :
                snaps[k].status = "in_progress" /\ snaps[k].processedFiles > 0 } }

\* C18: extract_rpa with a channel writes an in-progress snapshot after every
\* 5th processed item (count 5, 10, ...) and after the final item, and after
\* no other item.
C18_EveryFifth ==
  (op = "extract" /\ channel /\ pc \in {"loop", "done"}) =>
    ItemSnapshots = { c \in 1..idx : c % 5 = 0 \/ c = Len(files) }

\* C19: when a driver returns with a channel attached, the last snapshot is
\* terminal and agrees with the result (completed with processedFiles =
\* totalFiles iff success, failed iff not), and no in-progress snapshot ever
\* follows a terminal one.
C19_TerminalAgrees ==
  /\ \A i, j \in 1..Len(snaps) :
       (i < j /\ snaps[i].status \in Terminal) => snaps[j].status # "in_progress"
  /\ (op \in Drivers /\ channel /\ pc = "done") =>
       /\ snaps # <<>>
       /\ LET last == snaps[Len(snaps)]
          IN /\ result.success <=>
                  (last.status = "completed" /\ last.processedFiles = last.totalFiles)
             /\ ~result.success <=> last.status = "failed"

\* Each driver returned success after in-progress snapshots.
C19_Witness ==
  /\ op \in Drivers /\ channel /\ pc = "done" /\ result.success
  /\ Len(snaps) >= 3 /\ snaps[Len(snaps)].status = "completed"
  /\ snaps[Len(snaps) - 1].status = "in_progress"

CounterSum(st) == st.success + st.skipped + st.failed

\* An iteration of the loop of decompile_directory increments exactly one
\* counter by one.
OneCounterStep ==
  (op = "decompile" /\ idx' = idx + 1) =>
    \E c \in {"success", "skipped", "failed"} :
      /\ stats'[c] = stats[c] + 1
      /\ \A d \in {"success", "skipped", "failed"} \ {c} : stats'[d] = stats[d]

\* C20: each iteration of decompile_directory increments exactly one of
\* success, skipped, failed by one, so their sum is always the number of
\* files processed, and in a success result it equals stats.total.
C20_CountersPartition ==
  /\ [](op = "decompile" =>
          /\ CounterSum(stats) = idx
          /\ (pc = "done" /\ result.success) =>
               CounterSum(result.stats) = result.stats.total)
  /\ [][OneCounterStep]_vars

\* A batch returned with every counter positive.
C20_Witness ==
  /\ op = "decompile" /\ pc = "done" /\ result.success
  /\ result.stats.success >= 1 /\ result.stats.skipped >= 1 /\ result.stats.failed >= 2
====
